---- MODULE Spec2Model ----
(***************************************************************************)
(* Model of tool-alchemist-mcp: the Alchemist core (alchemist.py) and the   *)
(* MCP adapter (server.py).                                                 *)
(*                                                                          *)
(* A Python str is a sequence of one-character strings.  A pathlib.Path is  *)
(* a sequence of components, each component a sequence of strings.  The     *)
(* configuration file is held as the YAML document it contains.             *)
(***************************************************************************)
EXTENDS Integers, Sequences, FiniteSets, TLC

VARIABLES config, fs, last, calls, proc

vars == <<config, fs, last, calls, proc>>

----------------------------------------------------------------------------
(* Bounds *)

\* longest name drawn for the pure name functions
MaxNameLen == 3

\* number of core calls in one behaviour
MaxCalls == 1

\* number of registrations in one behaviour of the configuration file
MaxConfigCalls == 3

----------------------------------------------------------------------------
(* Characters and strings *)

LowerLetters == {"a", "b"}

UpperLetters == {"A"}

Digits == {"1"}

\* the characters names are drawn from: letters, a digit, the three allowed
\* separators, one symbol and the newline
Chars == LowerLetters \cup UpperLetters \cup Digits \cup {" ", "_", "-", "@", "\n"}

\* str.strip() and the regex class \s
Whitespace == {" ", "\n"}

\* the strings of exactly n characters
RECURSIVE StringsOfLen(_)
StringsOfLen(n) ==
    IF n = 0 THEN {<<>>}
    ELSE {Append(s, c) : s \in StringsOfLen(n - 1), c \in Chars}

Names == UNION {StringsOfLen(n) : n \in 0..MaxNameLen}

\* str.lower()
LowerChar(c) == IF c = "A" THEN "a" ELSE c

Lower(s) == [i \in 1..Len(s) |-> LowerChar(s[i])]

RECURSIVE LStrip(_)
LStrip(s) ==
    IF s # <<>> /\ Head(s) \in Whitespace THEN LStrip(Tail(s)) ELSE s

RECURSIVE RStrip(_)
RStrip(s) ==
    IF s # <<>> /\ s[Len(s)] \in Whitespace
    THEN RStrip(SubSeq(s, 1, Len(s) - 1))
    ELSE s

\* str.strip()
Strip(s) == RStrip(LStrip(s))

RECURSIVE DropRun(_, _)
DropRun(cls, s) ==
    IF s # <<>> /\ Head(s) \in cls THEN DropRun(cls, Tail(s)) ELSE s

\* re.sub(r"[cls]+", repl, s): every maximal run of cls becomes one repl
RECURSIVE ReSub(_, _, _)
ReSub(cls, repl, s) ==
    IF s = <<>> THEN <<>>
    ELSE IF Head(s) \in cls
         THEN <<repl>> \o ReSub(cls, repl, DropRun(cls, Tail(s)))
         ELSE <<Head(s)>> \o ReSub(cls, repl, Tail(s))

\* the character class [a-zA-Z0-9 _-]
NameClass == LowerLetters \cup UpperLetters \cup Digits \cup {" ", "_", "-"}

\* re.match(r"^[a-zA-Z0-9 _-]+$", s): without re.MULTILINE, $ matches at the
\* end of the string and also just before a newline that ends the string
ReMatchName(s) ==
    \E k \in 1..Len(s) :
        /\ \A i \in 1..k : s[i] \in NameClass
        /\ \/ k = Len(s)
           \/ k = Len(s) - 1 /\ s[Len(s)] = "\n"

to_snake_case(val) == Lower(ReSub(Whitespace \cup {"-"}, "_", Strip(val)))

to_kebob_case(val) == Lower(ReSub(Whitespace \cup {"_"}, "-", Strip(val)))

\* "True", or the exception raised
validate_tool_name(name) ==
    IF name = <<>> \/ ~ReMatchName(name) THEN "ValidationError" ELSE "True"

----------------------------------------------------------------------------
(* Paths and the filesystem *)

SERVER_FILE_NAME == <<"server.py">>

\* the Alchemist instances of the process, each with its own data_path;
\* all of them share one goose_config_path
Instances == {"i1", "i2"}

\* self.data_path
data_path(self) ==
    IF self = "i1" THEN << <<"home">>, <<"d1">> >> ELSE << <<"home">>, <<"d2">> >>

\* Path.joinpath: empty segments are dropped
JoinPath(p, segs) == p \o SelectSeq(segs, LAMBDA c : c # <<>>)

\* Path.parent: the root is its own parent
Parent(p) == IF p = <<>> THEN <<>> ELSE SubSeq(p, 1, Len(p) - 1)

\* str(path)
RECURSIVE StrPath(_)
StrPath(p) ==
    IF p = <<>> THEN <<"/">>
    ELSE IF Len(p) = 1 THEN <<"/">> \o p[1]
    ELSE StrPath(Parent(p)) \o <<"/">> \o p[Len(p)]

\* Path.mkdir(parents=True, exist_ok=True)
MkdirP(f, p) ==
    [f EXCEPT !.dirs = @ \cup {SubSeq(p, 1, k) : k \in 0..Len(p)}]

\* mutant: a file that exists is left as it is
WriteFile_keeps_existing(f, p, text) ==
    IF p \in DOMAIN f.files THEN f
    ELSE [f EXCEPT !.files =
            [q \in (DOMAIN f.files) \cup {p} |-> IF q = p THEN text ELSE f.files[q]]]

\* open(path, "w+"); f.write(text): the previous content is replaced
WriteFile(f, p, text) ==
    [f EXCEPT !.files =
        [q \in (DOMAIN f.files) \cup {p} |-> IF q = p THEN text ELSE f.files[q]]]

\* open(path, "w+") creates the file only in an existing directory
CanOpenForWrite(f, p, diskOk) == diskOk /\ Parent(p) \in f.dirs

get_tool_root_path(self, name) ==
    JoinPath(data_path(self), <<to_kebob_case(name)>>)

get_tool_server_path(self, name) ==
    JoinPath(get_tool_root_path(self, name),
             << <<"src">>, to_snake_case(name), SERVER_FILE_NAME >>)

----------------------------------------------------------------------------
(* External commands and templates *)

\* what one step of an operation did, in order: a directory made, a command
\* run (with its exit status), a template rendered, a file written
Event(ev, arg, path, ok) == [ev |-> ev, arg |-> arg, path |-> path, ok |-> ok]

\* the project manifest `uv init` leaves and `uv add` extends
Manifest(description, deps) ==
    [template |-> "pyproject.toml",
     ctx |-> [description |-> description, deps |-> deps]]

ManifestPath(tool_path) == JoinPath(tool_path, << <<"pyproject.toml">> >>)

\* what the uv program does to the project at `target`: `uv init` makes the
\* directory and its manifest, `uv add` extends the manifest; a run that
\* exits non-zero leaves the filesystem as it was
UvEffect(command, target, exit, f) ==
    LET mp == ManifestPath(target)
    IN  IF exit # 0 THEN f
        ELSE IF command[2] = <<"init">>
        THEN WriteFile(MkdirP(f, target), mp, Manifest(command[5], {}))
        ELSE IF mp \in DOMAIN f.files
        THEN WriteFile(f, mp,
               Manifest(f.files[mp].ctx.description,
                        f.files[mp].ctx.deps \cup
                          {command[i] : i \in 3..(Len(command) - 2)}))
        ELSE f

\* mutant: the exit status is not checked
_run_command_unchecked(command, target, exit, f) ==
    [outcome |-> "ok",
     fs |-> UvEffect(command, target, exit, f),
     events |-> <<Event("run", command, target, exit = 0)>>]

\* subprocess.run(command, check=True): a non-zero exit status raises
\* CalledProcessError
_run_command(command, target, exit, f) ==
    [outcome |-> IF exit = 0 THEN "ok" ELSE "CalledProcessError",
     fs |-> UvEffect(command, target, exit, f),
     events |-> <<Event("run", command, target, exit = 0)>>]

\* mutant: the check never raises
_check_uv_installed_never_raises(env) == "ok"

\* shutil.which("uv")
_check_uv_installed(env) == IF env.uv THEN "ok" ELSE "UVCommandNotFound"

\* template.render(**ctx)
Render(template, ctx) == [template |-> template, ctx |-> ctx]

_uv_create(name, tool_path, description, env, f) ==
    IF ~env.mkdirOk
    THEN [outcome |-> "IOError", fs |-> f,
          events |-> <<Event("mkdir", <<>>, Parent(tool_path), FALSE)>>]
    ELSE
    LET f1 == MkdirP(f, Parent(tool_path))
        e1 == <<Event("mkdir", <<>>, Parent(tool_path), TRUE)>>
        init == << <<"uv">>, <<"init">>, <<"--package">>, <<"--description">>,
                   IF description # <<>> THEN description ELSE name,
                   StrPath(tool_path) >>
        r1 == _run_command(init, tool_path, env.initExit, f1)
        add == << <<"uv">>, <<"add">>, <<"mcp">>, <<"--project">>,
                  StrPath(tool_path) >>
        r2 == _run_command(add, tool_path, env.addExit, r1.fs)
    IN  IF r1.outcome # "ok"
        THEN [outcome |-> r1.outcome, fs |-> r1.fs, events |-> e1 \o r1.events]
        ELSE [outcome |-> r2.outcome, fs |-> r2.fs,
              events |-> e1 \o r1.events \o r2.events]

\* the result of a core operation: the exception raised or "ok", the value
\* returned, the filesystem it leaves and what it did
Result(outcome, ret, f, events) ==
    [outcome |-> outcome, ret |-> ret, fs |-> f, events |-> events]

create_new_tool(self, name, description, env, f) ==
    IF validate_tool_name(name) # "True"
    THEN Result("ValidationError", <<>>, f, <<>>)
    ELSE IF _check_uv_installed(env) # "ok"
    THEN Result("UVCommandNotFound", <<>>, f, <<>>)
    ELSE
    LET name_in_kebab_case == to_kebob_case(name)
        name_in_snake_case == to_snake_case(name)
        tool_path == JoinPath(data_path(self), <<name_in_kebab_case>>)
        c == _uv_create(name, tool_path, description, env, f)
        server_file_path ==
            JoinPath(tool_path, << <<"src">>, name_in_snake_case, SERVER_FILE_NAME >>)
        init_file_path ==
            JoinPath(tool_path, << <<"src">>, name_in_snake_case, <<"__init__.py">> >>)
        tool_code ==
            Render("tool.py.j2",
                   [name |-> name, name_in_snake_case |-> name_in_snake_case])
        init_code ==
            Render("init.py.j2", [name_in_snake_case |-> name_in_snake_case])
        eT == <<Event("render", <<"tool.py.j2">>, <<>>, env.toolTemplateOk)>>
        eI == <<Event("render", <<"init.py.j2">>, <<>>, env.initTemplateOk)>>
        pkg == Parent(server_file_path)
        f1 == MkdirP(c.fs, pkg)
        eM == <<Event("mkdir", <<>>, pkg, env.pkgMkdirOk)>>
        okS == CanOpenForWrite(f1, server_file_path, env.serverWriteOk)
        f2 == WriteFile(f1, server_file_path, tool_code)
        eS == <<Event("write", <<>>, server_file_path, okS)>>
        okI == CanOpenForWrite(f2, init_file_path, env.initWriteOk)
        f3 == WriteFile(f2, init_file_path, init_code)
        eW == <<Event("write", <<>>, init_file_path, okI)>>
    IN  IF c.outcome # "ok" THEN Result(c.outcome, <<>>, c.fs, c.events)
        ELSE IF ~env.toolTemplateOk
        THEN Result("IOError", <<>>, c.fs, c.events \o eT)
        ELSE IF ~env.initTemplateOk
        THEN Result("IOError", <<>>, c.fs, c.events \o eT \o eI)
        ELSE IF ~env.pkgMkdirOk
        THEN Result("IOError", <<>>, c.fs, c.events \o eT \o eI \o eM)
        ELSE IF ~okS
        THEN Result("IOError", <<>>, f1, c.events \o eT \o eI \o eM \o eS)
        ELSE IF ~okI
        THEN Result("IOError", <<>>, f2, c.events \o eT \o eI \o eM \o eS \o eW)
        ELSE Result("ok", tool_path, f3, c.events \o eT \o eI \o eM \o eS \o eW)

add_dependency(self, name, deps, env, f) ==
    IF validate_tool_name(name) # "True"
    THEN Result("ValidationError", <<>>, f, <<>>)
    ELSE IF _check_uv_installed(env) # "ok"
    THEN Result("UVCommandNotFound", <<>>, f, <<>>)
    ELSE
    LET tool_path == get_tool_root_path(self, name)
        cmd == << <<"uv">>, <<"add">> >> \o deps \o
               << <<"--project">>, StrPath(tool_path) >>
        r == _run_command(cmd, tool_path, env.addExit, f)
    IN  IF r.outcome # "ok"
        THEN Result("SubprocessError", <<>>, r.fs, r.events)
        ELSE Result("ok", <<>>, r.fs, r.events)

----------------------------------------------------------------------------
(* The configuration file *)

\* a parsed YAML value: kind is "none", "map", "list", "str", "int" or "bool";
\* a dict has items, a set of <<key, value>>; a list has elems; a scalar has
\* its text
Val(kind, items, elems, text) ==
    [kind |-> kind, items |-> items, elems |-> elems, text |-> text]

PyNone == Val("none", {}, <<>>, "")

\* a dict with the given items
Dict(items) == Val("map", items, <<>>, "")

List(elems) == Val("list", {}, elems, "")

Scalar(kind, text) == Val(kind, {}, <<>>, text)

\* the keys of a dict
Keys(d) == {item[1] : item \in d.items}

\* d[key]
GetItem(d, key) == (CHOOSE item \in d.items : item[1] = key)[2]

\* the YAML key `extensions`
EXTENSIONS == <<"extensions">>

\* the content of the file at goose_config_path: absent, not YAML, an empty
\* document, or the document `doc`
FileMissing == [state |-> "missing", doc |-> PyNone]

FileInvalid == [state |-> "invalid", doc |-> PyNone]

FileEmpty == [state |-> "empty", doc |-> PyNone]

FileOf(doc) == [state |-> "yaml", doc |-> doc]

\* Python truth value of a parsed document
Truthy(v) ==
    CASE v.kind = "none" -> FALSE
      [] v.kind = "map"  -> v.items # {}
      [] v.kind = "list" -> v.elems # <<>>
      [] v.kind = "str"  -> v.text # ""
      [] v.kind = "int"  -> v.text # "0"
      [] v.kind = "bool" -> v.text # "false"

\* mutant: d.setdefault(key, value), an existing item is kept
SetItem_setdefault(d, key, value) ==
    IF key \in Keys(d) THEN d ELSE Dict(d.items \cup {<<key, value>>})

\* d[key] = value on a dict
SetItem(d, key, value) ==
    Dict({item \in d.items : item[1] # key} \cup {<<key, value>>})

\* the descriptor add_tool_to_config registers
new_extension(tool_path, tool_name_kebab) ==
    [args |-> << <<"--from">>, StrPath(tool_path), tool_name_kebab >>,
     cmd |-> "uvx",
     enabled |-> TRUE,
     envs |-> Dict({}),
     name |-> tool_name_kebab,
     type |-> "stdio"]

\* the outcome of the in-memory half of add_tool_to_config and the document
\* it would write
Loaded(outcome, doc) == [outcome |-> outcome, doc |-> doc]

\* mutant: an empty document is not replaced by the default
LoadConfig_no_default(file) ==
    IF file.state = "missing" THEN Loaded("IOError", PyNone)
    ELSE IF file.state = "invalid" THEN Loaded("YAMLError", PyNone)
    ELSE Loaded("ok", file.doc)

\* with open(path, "r"): yaml.safe_load(file) or {"extensions": {}}
LoadConfig(file) ==
    IF file.state = "missing" THEN Loaded("IOError", PyNone)
    ELSE IF file.state = "invalid" THEN Loaded("YAMLError", PyNone)
    ELSE IF Truthy(file.doc) THEN Loaded("ok", file.doc)
    ELSE Loaded("ok", Dict({<<EXTENSIONS, Dict({})>>}))

\* `"extensions" in current_config`: a key of a dict, an item of a list, a
\* substring of a str (the strings drawn are one word); no other kind has `in`
Contains(v, key) ==
    CASE v.kind = "map"  -> key \in Keys(v)
      [] v.kind = "list" -> \E i \in 1..Len(v.elems) : <<v.elems[i]>> = key
      [] v.kind = "str"  -> <<v.text>> = key
      [] OTHER -> FALSE

\* mutant: the extensions section is created afresh on every call
Upsert_fresh_section(current_config, tool_path, tool_name_kebab) ==
    IF current_config.kind # "map"
    THEN Loaded("TypeError", current_config)
    ELSE Loaded("ok",
           SetItem(current_config, EXTENSIONS,
             SetItem(Dict({}), tool_name_kebab,
                     new_extension(tool_path, tool_name_kebab))))

\* lines 157-169: ensure the extensions section, then insert the descriptor
Upsert(current_config, tool_path, tool_name_kebab) ==
    IF current_config.kind \notin {"map", "list", "str"}
    THEN Loaded("TypeError", current_config)
    ELSE IF ~Contains(current_config, EXTENSIONS) /\ current_config.kind # "map"
    THEN Loaded("TypeError", current_config)
    ELSE
    LET c1 == IF Contains(current_config, EXTENSIONS) THEN current_config
              ELSE SetItem(current_config, EXTENSIONS, Dict({}))
    IN  IF c1.kind # "map" \/ GetItem(c1, EXTENSIONS).kind # "map"
        THEN Loaded("TypeError", c1)
        ELSE Loaded("ok",
               SetItem(c1, EXTENSIONS,
                 SetItem(GetItem(c1, EXTENSIONS), tool_name_kebab,
                         new_extension(tool_path, tool_name_kebab))))

\* the result of add_tool_to_config: the exception raised or "ok", and the
\* file it leaves
ConfigResult(outcome, file) == [outcome |-> outcome, file |-> file]

\* mutant: the name is validated after the file has been written
add_tool_to_config_validates_last(self, name, writeOk, file) ==
    LET tool_path == get_tool_root_path(self, name)
        tool_name_kebab == to_kebob_case(name)
        l == LoadConfig(file)
        u == Upsert(l.doc, tool_path, tool_name_kebab)
    IN  IF l.outcome \in {"IOError", "YAMLError"} THEN ConfigResult("IOError", file)
        ELSE IF u.outcome # "ok" THEN ConfigResult(u.outcome, file)
        ELSE IF ~writeOk THEN ConfigResult("IOError", file)
        ELSE IF validate_tool_name(name) # "True"
        THEN ConfigResult("ValidationError", FileOf(u.doc))
        ELSE ConfigResult("ok", FileOf(u.doc))

add_tool_to_config(self, name, writeOk, file) ==
    IF validate_tool_name(name) # "True" THEN ConfigResult("ValidationError", file)
    ELSE
    LET tool_path == get_tool_root_path(self, name)
        tool_name_kebab == to_kebob_case(name)
        l == LoadConfig(file)
        u == Upsert(l.doc, tool_path, tool_name_kebab)
    IN  IF l.outcome \in {"IOError", "YAMLError"} THEN ConfigResult("IOError", file)
        ELSE IF u.outcome # "ok" THEN ConfigResult(u.outcome, file)
        ELSE IF ~writeOk THEN ConfigResult("IOError", file)
        ELSE ConfigResult("ok", FileOf(u.doc))

----------------------------------------------------------------------------
(* Inputs and the environment *)

\* the tool names the operations are called with: empty, with a symbol, ending
\* in a newline, two spellings of one kebab form, two with separators, blank
ToolNames ==
    { <<>>, <<"a", "@">>, <<"a", "\n">>, <<"a">>, <<"A">>,
      <<"A", " ", "b">>, <<"a", "_", "b">>, <<" ">> }

Descriptions == { <<>>, <<"A description">> }

DepLists == { <<>>, << <<"httpx">> >> }

\* what the machine does to one call: is uv on the PATH, the exit status of
\* each command, do the templates load and render, does each filesystem
\* operation succeed
EnvOk ==
    [uv |-> TRUE, mkdirOk |-> TRUE, initExit |-> 0, addExit |-> 0,
     toolTemplateOk |-> TRUE, initTemplateOk |-> TRUE, pkgMkdirOk |-> TRUE,
     serverWriteOk |-> TRUE, initWriteOk |-> TRUE]

\* an operation stops at its first failure, so one failure per call is drawn
Envs ==
    {EnvOk} \cup
    {[EnvOk EXCEPT ![k] = IF k \in {"initExit", "addExit"} THEN 1 ELSE FALSE] :
        k \in DOMAIN EnvOk}

\* an entry a user or an earlier run left in the configuration file
OldExtension(kebab) ==
    [args |-> << <<"--from">>, <<"/", "old">>, kebab >>,
     cmd |-> "uvx", enabled |-> FALSE, envs |-> Dict({}),
     name |-> kebab, type |-> "stdio"]

Extensions(keys) == Dict({<<k, OldExtension(k)>> : k \in keys})

GOOSE_MODEL == <<"GOOSE_MODEL">>

\* the configuration files a call can find
ConfigFiles ==
    { FileMissing, FileInvalid, FileEmpty,
      FileOf(Dict({})),
      FileOf(Dict({<<EXTENSIONS, Extensions({})>>})),
      FileOf(Dict({<<EXTENSIONS, Extensions({<<"a">>})>>})),
      FileOf(Dict({<<GOOSE_MODEL, Scalar("str", "gpt")>>})),
      FileOf(Dict({<<GOOSE_MODEL, Scalar("str", "gpt")>>,
                   <<EXTENSIONS, Extensions({<<"b">>})>>})),
      FileOf(Dict({<<EXTENSIONS, PyNone>>})),
      FileOf(List(<<"a">>)),
      FileOf(List(<<"extensions">>)),
      FileOf(List(<<>>)),
      FileOf(Scalar("str", "gpt")),
      FileOf(Scalar("str", "extensions")),
      FileOf(Scalar("int", "5")),
      FileOf(Scalar("bool", "false")) }

\* the filesystem before any call: the root and the home directory exist
InitFs == [dirs |-> {<<>>, << <<"home">> >>}, files |-> <<>>]

----------------------------------------------------------------------------
(* State *)

\* the last call that returned: the operation, its receiver and name, what
\* the machine did to it, the exception raised or "ok", the value returned,
\* what it did, and the configuration file and filesystem it started from
Call(op, self, name, env, outcome, ret, events, preConfig, preFs) ==
    [op |-> op, self |-> self, name |-> name, env |-> env, outcome |-> outcome,
     ret |-> ret, events |-> events, preConfig |-> preConfig, preFs |-> preFs]

NoCall(c, f) == Call("none", "i1", <<>>, EnvOk, "none", <<>>, <<>>, c, f)

NoProc == [p \in {} |-> <<>>]

\* the configuration files the scaffolding behaviours start from
CoreConfigFiles ==
    { FileOf(Dict({<<EXTENSIONS, Extensions({<<"a">>})>>})) }

\* a filesystem on which tool "a" was scaffolded earlier and its server file
\* edited since
ScaffoldedFs ==
    WriteFile(create_new_tool("i1", <<"a">>, <<>>, EnvOk, InitFs).fs,
              get_tool_server_path("i1", <<"a">>),
              Render("edited", [name |-> <<"a">>]))

Init ==
    /\ config \in CoreConfigFiles
    /\ fs \in {InitFs, ScaffoldedFs}
    /\ last = NoCall(config, fs)
    /\ calls = 0
    /\ proc = NoProc

CallCreateNewTool ==
    /\ calls < MaxCalls
    /\ \E self \in Instances, name \in ToolNames, d \in Descriptions, env \in Envs :
        LET r == create_new_tool(self, name, d, env, fs)
        IN  /\ fs' = r.fs
            /\ last' = Call("create_new_tool", self, name, env, r.outcome, r.ret,
                            r.events, config, fs)
    /\ calls' = calls + 1
    /\ UNCHANGED <<config, proc>>

CallAddDependency ==
    /\ calls < MaxCalls
    /\ \E self \in Instances, name \in ToolNames, deps \in DepLists, env \in Envs :
        LET r == add_dependency(self, name, deps, env, fs)
        IN  /\ fs' = r.fs
            /\ last' = Call("add_dependency", self, name, env, r.outcome, r.ret,
                            r.events, config, fs)
    /\ calls' = calls + 1
    /\ UNCHANGED <<config, proc>>

CallAddToolToConfig ==
    /\ calls < MaxCalls
    /\ \E self \in Instances, name \in ToolNames, writeOk \in BOOLEAN :
        LET r == add_tool_to_config(self, name, writeOk, config)
        IN  /\ config' = r.file
            /\ last' = Call("add_tool_to_config", self, name,
                            [writeOk |-> writeOk], r.outcome, <<>>, <<>>,
                            config, fs)
    /\ calls' = calls + 1
    /\ UNCHANGED <<fs, proc>>

Next == CallCreateNewTool \/ CallAddDependency \/ CallAddToolToConfig

Spec == Init /\ [][Next]_vars

----------------------------------------------------------------------------
(* Registrations one after the other on one configuration file *)

InitConfig ==
    /\ config \in ConfigFiles
    /\ fs = InitFs
    /\ last = NoCall(config, fs)
    /\ calls = 0
    /\ proc = NoProc

Register ==
    /\ calls < MaxConfigCalls
    /\ \E self \in Instances, name \in ToolNames, writeOk \in BOOLEAN :
        LET r == add_tool_to_config(self, name, writeOk, config)
        IN  /\ config' = r.file
            /\ last' = Call("add_tool_to_config", self, name,
                            [writeOk |-> writeOk], r.outcome, <<>>, <<>>,
                            config, fs)
    /\ calls' = calls + 1
    /\ UNCHANGED <<fs, proc>>

NextConfig == Register

SpecConfig == InitConfig /\ [][NextConfig]_vars

----------------------------------------------------------------------------
(* Two registrations running at once on one configuration file.  Each is the *)
(* code of add_tool_to_config cut at its file operations: the read (open,    *)
(* load, close), the open for writing, which truncates the file, and the     *)
(* dump, flushed when the file is closed.                                    *)

Procs == {"p1", "p2"}

\* a caller's position in add_tool_to_config: the instance and name it was
\* called with, the document it holds, the exception it raised or "ok", and
\* when it read, opened for writing and dumped
Proc(pc, self, name, doc, outcome, readAt, openAt, dumpAt) ==
    [pc |-> pc, self |-> self, name |-> name, doc |-> doc, outcome |-> outcome,
     readAt |-> readAt, openAt |-> openAt, dumpAt |-> dumpAt]

\* the configuration files the two callers can find
RaceConfigFiles ==
    { FileEmpty,
      FileOf(Dict({<<EXTENSIONS, Extensions({})>>})),
      FileOf(Dict({<<GOOSE_MODEL, Scalar("str", "gpt")>>,
                   <<EXTENSIONS, Extensions({<<"b">>})>>})),
      FileOf(List(<<"a">>)) }

InitRace ==
    /\ config \in RaceConfigFiles
    /\ fs = InitFs
    /\ last = NoCall(config, fs)
    /\ calls = 0
    /\ proc = [p \in Procs |-> Proc("idle", "i1", <<>>, PyNone, "none", 0, 0, 0)]

\* lines 149-169: validate, read and parse the file, insert the descriptor
RaceRead ==
    /\ \E p \in Procs, self \in Instances, name \in ToolNames :
        /\ proc[p].pc = "idle"
        /\ LET l == LoadConfig(config)
               u == Upsert(l.doc, get_tool_root_path(self, name), to_kebob_case(name))
               outcome ==
                   IF validate_tool_name(name) # "True" THEN "ValidationError"
                   ELSE IF l.outcome # "ok" THEN "IOError"
                   ELSE u.outcome
           IN  proc' = [proc EXCEPT ![p] =
                  IF outcome = "ok"
                  THEN Proc("loaded", self, name, u.doc, "none", calls + 1, 0, 0)
                  ELSE Proc("done", self, name, PyNone, outcome, calls + 1, 0, 0)]
    /\ calls' = calls + 1
    /\ UNCHANGED <<config, fs, last>>

\* mutant: the file is read again when it is opened for writing, and the
\* entries it holds by then are kept
OpenForWrite_rereads(file, doc) ==
    [file |-> FileEmpty,
     doc |-> IF file.state = "yaml" /\ file.doc.kind = "map"
                /\ EXTENSIONS \in Keys(file.doc)
                /\ GetItem(file.doc, EXTENSIONS).kind = "map"
             THEN SetItem(doc, EXTENSIONS,
                    Dict(GetItem(doc, EXTENSIONS).items \cup
                         {item \in GetItem(file.doc, EXTENSIONS).items :
                             item[1] \notin Keys(GetItem(doc, EXTENSIONS))}))
             ELSE doc]

\* open(path, "w+"): the file is truncated; the document to dump is the one
\* loaded before
OpenForWrite(file, doc) == [file |-> FileEmpty, doc |-> doc]

\* line 171: open(path, "w+") truncates the file, or fails
RaceOpen ==
    /\ \E p \in Procs, writeOk \in BOOLEAN :
        /\ proc[p].pc = "loaded"
        /\ IF writeOk
           THEN /\ config' = OpenForWrite(config, proc[p].doc).file
                /\ proc' = [proc EXCEPT ![p].pc = "opened",
                                        ![p].doc = OpenForWrite(config, @).doc,
                                        ![p].openAt = calls + 1]
           ELSE /\ config' = config
                /\ proc' = [proc EXCEPT ![p].pc = "done", ![p].outcome = "IOError",
                                        ![p].openAt = calls + 1]
    /\ calls' = calls + 1
    /\ UNCHANGED <<fs, last>>

\* line 172 and the close: the document is written from offset 0.  On a file
\* the other caller has filled since this caller truncated it, the bytes
\* land over the other document: this document if it is at least as long,
\* otherwise this document followed by the other's tail, which is not YAML
Dumped(file, doc) ==
    IF file.state = "empty" THEN {FileOf(doc)} ELSE {FileOf(doc), FileInvalid}

RaceDump ==
    /\ \E p \in Procs :
        /\ proc[p].pc = "opened"
        /\ config' \in Dumped(config, proc[p].doc)
        /\ proc' = [proc EXCEPT ![p].pc = "done", ![p].outcome = "ok",
                                ![p].dumpAt = calls + 1]
    /\ calls' = calls + 1
    /\ UNCHANGED <<fs, last>>

NextRace == RaceRead \/ RaceOpen \/ RaceDump

SpecRace == InitRace /\ [][NextRace]_vars

----------------------------------------------------------------------------
(* The MCP adapter (server.py) *)

\* the module's one Alchemist
alchemist == "i1"

\* ToolName: Field(pattern=r"^[a-zA-Z0-9 _-]+$"), matched on the whole value
ToolName(val) ==
    val # <<>> /\ \A i \in 1..Len(val) : val[i] \in NameClass

\* the result of an adapter operation: "ok", "McpError" or the exception that
\* left it, the value returned, and the filesystem and file it leaves
Response(outcome, ret, f, file, events) ==
    [outcome |-> outcome, ret |-> ret, fs |-> f, file |-> file, events |-> events]

\* McpError(ErrorData(message=prefix + str(e), code=INTERNAL_ERROR)): the
\* message is str(e) for a ValidationError, prefixed for any other exception
McpError(prefix, e, f, file, events) ==
    Response("McpError",
             <<IF e = "ValidationError" THEN "" ELSE prefix, e>>,
             f, file, events)

\* lines 25-34: r is the result of create_new_tool, c of add_tool_to_config,
\* which runs only when create_new_tool returned
TryBuild(r, c, file) ==
    IF r.outcome # "ok"
    THEN McpError("Failed to create tool: ", r.outcome, r.fs, file, r.events)
    ELSE IF c.outcome # "ok"
    THEN McpError("Failed to create tool: ", c.outcome, r.fs, c.file, r.events)
    ELSE Response("ok", r.ret, r.fs, c.file, r.events)

build_boilerplate(name, env, writeOk, f, file) ==
    TryBuild(create_new_tool(alchemist, name, <<>>, env, f),
             add_tool_to_config(alchemist, name, writeOk, file),
             file)

get_tool_path(tool_name, f, file) ==
    Response("ok",
             <<get_tool_root_path(alchemist, tool_name),
               get_tool_server_path(alchemist, tool_name)>>,
             f, file, <<>>)

add_deps(tool_name, deps, env, f, file) ==
    LET r == add_dependency(alchemist, tool_name, deps, env, f)
    IN  Response(r.outcome, <<>>, r.fs, file, r.events)

InitServer ==
    /\ config \in ConfigFiles
    /\ fs \in {InitFs, ScaffoldedFs}
    /\ last = NoCall(config, fs)
    /\ calls = 0
    /\ proc = NoProc

CreateNewToolBoilerplate ==
    /\ calls < MaxCalls
    /\ \E name \in ToolNames, env \in Envs, writeOk \in BOOLEAN :
        /\ ToolName(name)
        /\ LET r == build_boilerplate(name, env, writeOk, fs, config)
           IN  /\ fs' = r.fs
               /\ config' = r.file
               /\ last' = Call("CreateNewToolBoilerplate", alchemist, name,
                               env, r.outcome, r.ret,
                               r.events, config, fs)
    /\ calls' = calls + 1
    /\ UNCHANGED proc

GetToolPath ==
    /\ calls < MaxCalls
    /\ \E name \in ToolNames :
        /\ ToolName(name)
        /\ LET r == get_tool_path(name, fs, config)
           IN  last' = Call("GetToolPath", alchemist, name, EnvOk, r.outcome,
                            r.ret, r.events, config, fs)
    /\ calls' = calls + 1
    /\ UNCHANGED <<config, fs, proc>>

AddDependency ==
    /\ calls < MaxCalls
    /\ \E name \in ToolNames, deps \in DepLists, env \in Envs :
        /\ ToolName(name)
        /\ LET r == add_deps(name, deps, env, fs, config)
           IN  /\ fs' = r.fs
               /\ last' = Call("AddDependency", alchemist, name, env, r.outcome,
                               r.ret, r.events, config, fs)
    /\ calls' = calls + 1
    /\ UNCHANGED <<config, proc>>

NextServer == CreateNewToolBoilerplate \/ GetToolPath \/ AddDependency

SpecServer == InitServer /\ [][NextServer]_vars

----------------------------------------------------------------------------
(* The name functions and the path functions on their own *)

\* the argument is drawn first; each behaviour applies one function to it
InitNames ==
    /\ config = FileEmpty
    /\ fs = InitFs
    /\ \E name \in Names :
        last = Call("none", "i1", name, EnvOk, "none", <<>>, <<>>, config, fs)
    /\ calls = 0
    /\ proc = NoProc

ValidateToolName ==
    /\ last.op = "none"
    /\ last' = [last EXCEPT !.op = "validate_tool_name",
                            !.outcome = validate_tool_name(last.name)]
    /\ UNCHANGED <<config, fs, calls, proc>>

ToKebobCase ==
    /\ last.op = "none"
    /\ last' = [last EXCEPT !.op = "to_kebob_case", !.outcome = "ok",
                            !.ret = to_kebob_case(last.name)]
    /\ UNCHANGED <<config, fs, calls, proc>>

ToSnakeCase ==
    /\ last.op = "none"
    /\ last' = [last EXCEPT !.op = "to_snake_case", !.outcome = "ok",
                            !.ret = to_snake_case(last.name)]
    /\ UNCHANGED <<config, fs, calls, proc>>

GetToolRootPath ==
    /\ last.op = "none"
    /\ \E self \in Instances :
        last' = [last EXCEPT !.op = "get_tool_root_path", !.self = self,
                            !.outcome = "ok",
                            !.ret = get_tool_root_path(self, last.name)]
    /\ UNCHANGED <<config, fs, calls, proc>>

GetToolServerPath ==
    /\ last.op = "none"
    /\ \E self \in Instances :
        last' = [last EXCEPT !.op = "get_tool_server_path", !.self = self,
                            !.outcome = "ok",
                            !.ret = get_tool_server_path(self, last.name)]
    /\ UNCHANGED <<config, fs, calls, proc>>

NextNames ==
    \/ ValidateToolName
    \/ ToKebobCase
    \/ ToSnakeCase
    \/ GetToolRootPath
    \/ GetToolServerPath

SpecNames == InitNames /\ [][NextNames]_vars

----------------------------------------------------------------------------
(* Claims *)

\* a name made only of letters, digits, space, underscore and hyphen
OnlyAllowedChars(name) == \A i \in 1..Len(name) : name[i] \in NameClass

\* C1: validate_tool_name raises ValidationError for the empty string and for
\* every string with a character outside letters, digits, space, underscore
\* and hyphen (a trailing newline included), and returns True for every
\* non-empty string made only of those characters.
C1_ValidateRejectsExactly ==
    last.op = "validate_tool_name" =>
        /\ last.outcome \in {"True", "ValidationError"}
        /\ last.outcome = "ValidationError" <=>
              (last.name = <<>> \/ ~OnlyAllowedChars(last.name))

CoreOps == {"create_new_tool", "add_tool_to_config", "add_dependency"}

\* C2: create_new_tool, add_tool_to_config and add_dependency, called with a
\* name validate_tool_name rejects, fail with ValidationError before any side
\* effect: no command run, nothing created or written, the configuration
\* file unchanged.
C2_InvalidNameNoSideEffect ==
    (last.op \in CoreOps /\ validate_tool_name(last.name) = "ValidationError") =>
        /\ last.outcome = "ValidationError"
        /\ last.events = <<>>
        /\ fs = last.preFs
        /\ config = last.preConfig

C2_Witness ==
    /\ last.op = "add_tool_to_config"
    /\ last.name = <<"a", "@">>
    /\ last.outcome = "ValidationError"
    /\ last.preConfig.state = "yaml"
    /\ last.preConfig.doc.kind = "map"
    /\ last.env.writeOk

\* C3: without uv on the PATH, create_new_tool and add_dependency with a valid
\* name fail with UVCommandNotFound, run no command and write nothing.
C3_NoUvNoWrites ==
    (/\ last.op \in {"create_new_tool", "add_dependency"}
     /\ validate_tool_name(last.name) = "True"
     /\ ~last.env.uv) =>
        /\ last.outcome = "UVCommandNotFound"
        /\ last.events = <<>>
        /\ fs = last.preFs
        /\ config = last.preConfig

C3_Witness ==
    /\ last.op = "create_new_tool"
    /\ last.name = <<"A", " ", "b">>
    /\ ~last.env.uv
    /\ last.outcome = "UVCommandNotFound"
    /\ data_path(last.self) \notin fs.dirs

\* the name of the last call is one validate_tool_name accepts
ValidName == validate_tool_name(last.name) = "True"

\* kebab(name) of the last call
LastKebab == to_kebob_case(last.name)

\* data_path/kebab(name) of the last call
LastToolPath == JoinPath(data_path(last.self), <<LastKebab>>)

\* the descriptor the claims state for a registration by `self` of `name`
Descriptor(self, name) ==
    [args |-> << <<"--from">>,
                 StrPath(JoinPath(data_path(self), <<to_kebob_case(name)>>)),
                 to_kebob_case(name) >>,
     cmd |-> "uvx", enabled |-> TRUE, envs |-> Dict({}),
     name |-> to_kebob_case(name), type |-> "stdio"]

\* the file holds a mapping whose `extensions` value is a mapping
HasExtensions(file) ==
    /\ file.state = "yaml"
    /\ file.doc.kind = "map"
    /\ EXTENSIONS \in Keys(file.doc)
    /\ GetItem(file.doc, EXTENSIONS).kind = "map"

ExtensionsOf(file) == GetItem(file.doc, EXTENSIONS)

\* an empty document, a mapping without `extensions`, or `extensions: {}`
EmptyOrNoExtensions(file) ==
    \/ file.state = "empty"
    \/ /\ file.state = "yaml"
       /\ file.doc.kind = "map"
       /\ \/ EXTENSIONS \notin Keys(file.doc)
          \/ GetItem(file.doc, EXTENSIONS) = Dict({})

\* C4: for every valid name, add_tool_to_config on an empty document, a
\* mapping without `extensions` or a mapping with `extensions: {}` succeeds
\* (the file being writable) and extensions[kebab(name)] is then exactly
\* {args: ["--from", str(data_path/kebab), kebab], cmd: "uvx", enabled: true,
\* envs: {}, name: kebab, type: "stdio"}.
C4_RegistersDescriptor ==
    (/\ last.op = "add_tool_to_config"
     /\ ValidName
     /\ last.env.writeOk
     /\ EmptyOrNoExtensions(last.preConfig)) =>
        /\ last.outcome = "ok"
        /\ HasExtensions(config)
        /\ {item \in ExtensionsOf(config).items : item[1] = LastKebab}
             = {<<LastKebab, Descriptor(last.self, last.name)>>}

C4_Witness ==
    /\ last.op = "add_tool_to_config"
    /\ last.name = <<"A", " ", "b">>
    /\ last.preConfig = FileEmpty
    /\ last.outcome = "ok"
    /\ HasExtensions(config)
    /\ <<"a", "-", "b">> \in Keys(ExtensionsOf(config))

\* C5: registration is an overwriting upsert keyed by kebab name: a successful
\* registration on a file that already holds an entry for the kebab name
\* (written by an earlier call, by any instance, under any name of that kebab
\* form) leaves exactly one entry for it, the descriptor of this call with
\* nothing of the earlier one, and no other key appears or disappears; when
\* the earlier entry is the same descriptor the file is left equal.
C5_OverwritingUpsert ==
    (/\ last.op = "add_tool_to_config"
     /\ last.outcome = "ok"
     /\ HasExtensions(last.preConfig)
     /\ LastKebab \in Keys(ExtensionsOf(last.preConfig))) =>
        /\ HasExtensions(config)
        /\ {item \in ExtensionsOf(config).items : item[1] = LastKebab}
             = {<<LastKebab, Descriptor(last.self, last.name)>>}
        /\ Keys(ExtensionsOf(config)) = Keys(ExtensionsOf(last.preConfig))
        /\ (GetItem(ExtensionsOf(last.preConfig), LastKebab)
              = Descriptor(last.self, last.name)) => config = last.preConfig

\* the second of two registrations of one kebab name by different instances
\* under different names
C5_Witness ==
    /\ last.op = "add_tool_to_config"
    /\ last.outcome = "ok"
    /\ calls >= 2
    /\ last.name = <<"A">>
    /\ HasExtensions(last.preConfig)
    /\ LastKebab \in Keys(ExtensionsOf(last.preConfig))
    /\ \E other \in Instances \ {last.self} :
          GetItem(ExtensionsOf(last.preConfig), LastKebab)
            = Descriptor(other, <<"a">>)
    /\ GetItem(ExtensionsOf(config), LastKebab) = Descriptor(last.self, <<"A">>)

\* C9: add_tool_to_config on a file whose document is not a mapping, or whose
\* `extensions` value is not a mapping, fails with IOError and nothing else,
\* and never reports success.
C9_NonMappingFailsWithIOError ==
    (/\ last.op = "add_tool_to_config"
     /\ ValidName
     /\ last.preConfig.state = "yaml"
     /\ \/ last.preConfig.doc.kind # "map"
        \/ /\ EXTENSIONS \in Keys(last.preConfig.doc)
           /\ GetItem(last.preConfig.doc, EXTENSIONS).kind # "map") =>
        last.outcome = "IOError"

\* the commands of the last call, in the order they were run
Runs == SelectSeq(last.events, LAMBDA e : e.ev = "run")

\* the command is `uv init --package --description <d> <path>`
IsInit(e, path) ==
    /\ Len(e.arg) = 6
    /\ SubSeq(e.arg, 1, 4) = << <<"uv">>, <<"init">>, <<"--package">>, <<"--description">> >>
    /\ e.arg[6] = StrPath(path)

\* the command is `uv add mcp --project <path>`
IsAddMcp(e, path) ==
    e.arg = << <<"uv">>, <<"add">>, <<"mcp">>, <<"--project">>, StrPath(path) >>

\* the last call rendered no template and wrote no file
NoTemplateOutput == \A i \in 1..Len(last.events) : last.events[i].ev \notin {"render", "write"}

LastServerPath ==
    JoinPath(LastToolPath, << <<"src">>, to_snake_case(last.name), <<"server.py">> >>)

LastInitPath ==
    JoinPath(LastToolPath, << <<"src">>, to_snake_case(last.name), <<"__init__.py">> >>)

\* the file at p is as it was before the last call
Untouched(p) ==
    /\ p \in DOMAIN fs.files <=> p \in DOMAIN last.preFs.files
    /\ p \in DOMAIN fs.files => fs.files[p] = last.preFs.files[p]

\* C7: create_new_tool with a valid name and uv present runs the package-init
\* command, then the dependency-add command adding mcp, then renders and
\* writes the two files; each command runs at most once; a non-zero exit of
\* either aborts with the subprocess error, no later command runs and no
\* template file is written, and what the earlier steps created stays on disk.
C7_StepsInOrderNoRetry ==
    (last.op = "create_new_tool" /\ ValidName /\ last.env.uv) =>
        /\ Len(Runs) <= 2
        /\ Len(Runs) >= 1 => IsInit(Runs[1], LastToolPath)
        /\ Len(Runs) = 2 => Runs[1].ok /\ IsAddMcp(Runs[2], LastToolPath)
        /\ \A i \in 1..Len(last.events) :
              last.events[i].ev \in {"render", "write"} =>
                 \E j, k \in 1..(i - 1) :
                    /\ j < k
                    /\ last.events[j].ev = "run" /\ last.events[j].ok
                    /\ last.events[k].ev = "run" /\ last.events[k].ok
        /\ (last.env.mkdirOk /\ last.env.initExit # 0) =>
              /\ last.outcome = "CalledProcessError"
              /\ Len(Runs) = 1 /\ ~Runs[1].ok
              /\ NoTemplateOutput
              /\ fs.files = last.preFs.files
              /\ Parent(LastToolPath) \in fs.dirs
        /\ (last.env.mkdirOk /\ last.env.initExit = 0 /\ last.env.addExit # 0) =>
              /\ last.outcome = "CalledProcessError"
              /\ Len(Runs) = 2 /\ ~Runs[2].ok
              /\ NoTemplateOutput
              /\ Untouched(LastServerPath) /\ Untouched(LastInitPath)
              /\ LastToolPath \in fs.dirs
              /\ ManifestPath(LastToolPath) \in DOMAIN fs.files

\* the dependency-add command failed after the package-init command had made
\* the project, which is still there
C7_Witness ==
    /\ last.op = "create_new_tool"
    /\ last.name = <<"A", " ", "b">>
    /\ last.env.addExit # 0
    /\ last.outcome = "CalledProcessError"
    /\ Len(Runs) = 2
    /\ LastToolPath \notin last.preFs.dirs
    /\ LastToolPath \in fs.dirs
    /\ LastServerPath \notin DOMAIN fs.files

\* C8: for every valid name, when both commands succeed, both templates render
\* and the files can be written, create_new_tool returns data_path/kebab(name),
\* which is get_tool_root_path(name); server.py and __init__.py under
\* src/snake(name) exist, server.py at get_tool_server_path(name) holding the
\* entry template rendered with the raw name and the snake name, __init__.py
\* the init template rendered with the snake name, whatever they held before.
C8_ReturnsRootAndWritesFiles ==
    (last.op = "create_new_tool" /\ ValidName /\ last.env = EnvOk) =>
        /\ last.outcome = "ok"
        /\ last.ret = LastToolPath
        /\ last.ret = get_tool_root_path(last.self, last.name)
        /\ LastServerPath = get_tool_server_path(last.self, last.name)
        /\ LastServerPath \in DOMAIN fs.files
        /\ LastInitPath \in DOMAIN fs.files
        /\ fs.files[LastServerPath] =
              [template |-> "tool.py.j2",
               ctx |-> [name |-> last.name,
                        name_in_snake_case |-> to_snake_case(last.name)]]
        /\ fs.files[LastInitPath] =
              [template |-> "init.py.j2",
               ctx |-> [name_in_snake_case |-> to_snake_case(last.name)]]

\* an edited server.py is replaced by the rendered template
C8_Witness ==
    /\ last.op = "create_new_tool"
    /\ last.outcome = "ok"
    /\ last.name = <<"A">>
    /\ LastServerPath \in DOMAIN last.preFs.files
    /\ last.preFs.files[LastServerPath].template = "edited"
    /\ fs.files[LastServerPath].template = "tool.py.j2"
    /\ last.ret = << <<"home">>, <<"d1">>, <<"a">> >>

\* both callers have returned without an exception
BothReturned == \A p \in Procs : proc[p].pc = "done" /\ proc[p].outcome = "ok"

\* the caller that dumped last, and the other one
LaterWriter == CHOOSE p \in Procs : \A q \in Procs : proc[q].dumpAt <= proc[p].dumpAt

EarlierWriter == CHOOSE p \in Procs : p # LaterWriter

\* both callers read the file before either opened it for writing
BothReadFirst ==
    \A p, q \in Procs : proc[p].readAt < proc[q].openAt

\* one caller had returned before the other read the file
OneAfterTheOther == proc[EarlierWriter].dumpAt < proc[LaterWriter].readAt

\* the later caller opened the file before the earlier one had dumped
WritesOverlap == proc[LaterWriter].openAt < proc[EarlierWriter].dumpAt

KebabOf(p) == to_kebob_case(proc[p].name)

\* the extension keys of the file the two callers found
InitialKeys ==
    IF HasExtensions(last.preConfig) THEN Keys(ExtensionsOf(last.preConfig)) ELSE {}

\* C6: two add_tool_to_config calls for different tool names at once on one
\* file are not serialized: when both read before either writes, both return
\* successfully and the file holds the later writer's document only, the
\* earlier writer's entry lost (or, the two writes overlapping, no YAML at
\* all); when one call runs after the other, both entries are in the file.
C6_LaterWriteWins ==
    (BothReturned /\ KebabOf("p1") # KebabOf("p2")) =>
        /\ BothReadFirst =>
              /\ \/ config = FileOf(proc[LaterWriter].doc)
                 \/ WritesOverlap /\ config = FileInvalid
              /\ Keys(GetItem(proc[LaterWriter].doc, EXTENSIONS))
                   = InitialKeys \cup {KebabOf(LaterWriter)}
        /\ OneAfterTheOther =>
              /\ HasExtensions(config)
              /\ \A p \in Procs :
                    {item \in ExtensionsOf(config).items : item[1] = KebabOf(p)}
                      = {<<KebabOf(p), Descriptor(proc[p].self, proc[p].name)>>}

\* both returned successfully and the earlier writer's entry is not in the file
C6_Witness ==
    /\ BothReturned
    /\ BothReadFirst
    /\ ~WritesOverlap
    /\ HasExtensions(config)
    /\ KebabOf(EarlierWriter) = <<"a", "-", "b">>
    /\ KebabOf(LaterWriter) = <<"a">>
    /\ Keys(ExtensionsOf(config)) = {<<"a">>}

AdapterOps == {"CreateNewToolBoilerplate", "GetToolPath", "AddDependency"}

\* C10: each adapter operation turns every error of the core into McpError
\* carrying a message; no core exception leaves an adapter operation as it is.
C10_AdapterTranslatesErrors ==
    last.op \in AdapterOps => last.outcome \in {"ok", "McpError"}

\* the top-level items of a file's mapping other than `extensions`
OtherTopLevel(file) == {item \in file.doc.items : item[1] # EXTENSIONS}

\* the `extensions` items of a file, none when the section is absent
ExtensionItems(file) ==
    IF HasExtensions(file) THEN ExtensionsOf(file).items ELSE {}

\* the file holds a mapping
IsMapping(file) == file.state = "yaml" /\ file.doc.kind = "map"

\* C11: a successful add_tool_to_config on a file holding a mapping leaves
\* every top-level item other than `extensions` and every `extensions` item
\* whose key is not the kebab name as they were, and the `extensions` keys are
\* the earlier keys and the kebab name (so over a sequence of calls: the
\* initial keys and the kebab forms of all registered names); a call that
\* finds the file missing or not parseable raises IOError and leaves the file
\* as it was.
C11_FrameOfRegistration ==
    /\ (/\ last.op = "add_tool_to_config"
        /\ last.outcome = "ok"
        /\ IsMapping(last.preConfig)) =>
           /\ IsMapping(config)
           /\ HasExtensions(config)
           /\ OtherTopLevel(config) = OtherTopLevel(last.preConfig)
           /\ {item \in ExtensionItems(config) : item[1] # LastKebab}
                = {item \in ExtensionItems(last.preConfig) : item[1] # LastKebab}
           /\ Keys(ExtensionsOf(config))
                = {item[1] : item \in ExtensionItems(last.preConfig)}
                    \cup {LastKebab}
    /\ (/\ last.op = "add_tool_to_config"
        /\ ValidName
        /\ last.preConfig.state \in {"missing", "invalid"}) =>
           /\ last.outcome = "IOError"
           /\ config = last.preConfig

\* the second registration on a mapping that held GOOSE_MODEL and an entry
\* "b": both are kept next to the two registered names
C11_Witness ==
    /\ last.op = "add_tool_to_config"
    /\ last.outcome = "ok"
    /\ calls >= 2
    /\ last.name = <<"A", " ", "b">>
    /\ IsMapping(last.preConfig)
    /\ GOOSE_MODEL \in Keys(last.preConfig.doc)
    /\ HasExtensions(last.preConfig)
    /\ Keys(ExtensionsOf(last.preConfig)) = {<<"b">>, <<"a">>}
    /\ HasExtensions(config)
    /\ OtherTopLevel(config) = OtherTopLevel(last.preConfig)
    /\ Keys(ExtensionsOf(config)) = {<<"b">>, <<"a">>, <<"a", "-", "b">>}
    /\ GetItem(ExtensionsOf(config), <<"b">>) = OldExtension(<<"b">>)

\* the last call ran `uv init` against the data root itself
InitAgainstDataRoot ==
    \E i \in 1..Len(Runs) : IsInit(Runs[i], data_path(last.self))

\* the configuration file holds an entry under the empty key
EmptyKeyWritten ==
    HasExtensions(config) /\ <<>> \in Keys(ExtensionsOf(config))

\* C12: for every name validate_tool_name accepts, to_kebob_case(name) and
\* to_snake_case(name) are non-empty, get_tool_root_path(name) is a proper
\* child of data_path and never data_path itself, create_new_tool never runs
\* the package-init command against the data root, and add_tool_to_config
\* never writes an entry under the empty key.
C12_AcceptedNamesHaveNonEmptyForms ==
    (last.op \in CoreOps /\ ValidName) =>
        /\ to_kebob_case(last.name) # <<>>
        /\ to_snake_case(last.name) # <<>>
        /\ get_tool_root_path(last.self, last.name) # data_path(last.self)
        /\ Parent(get_tool_root_path(last.self, last.name)) = data_path(last.self)
        /\ ~InitAgainstDataRoot
        /\ ~EmptyKeyWritten

====
